---- MODULE Spec2Model ----
(***************************************************************************)
(* SKALE Transaction Manager.                                              *)
(*                                                                         *)
(*   server.py                 the Flask front door: /sign-and-send under  *)
(*                             threadLock, the start-up order of __main__  *)
(*   transaction_manager/eth.py  convert_tx, calculate_gas,                *)
(*                             wait_for_blocks, wait_for_receipt           *)
(*                                                                         *)
(* nonce_manager.NonceManager is imported by server.py but its source is   *)
(* not part of src/: its three operations are modelled from the            *)
(* specification's section 4.3 (Nonce Sequencer).                          *)
(***************************************************************************)
EXTENDS Integers, Sequences, FiniteSets, TLC

(***************************************************************************)
(* Bounds of the model.                                                    *)
(***************************************************************************)
NumThreads == 2
MaxRequests == 3
MaxChain == 2
\* eth.py: largest requested gas, multiplier numerator, estimate, block gas limit
MaxGas == 2
MaxMult == 3
MaxEstimate == 4
MaxBlockGasLimit == 4
\* multipliers are floats in the code; here they are multiples of 1/MultDen
MultDen == 2
\* eth.py: largest max_time, longest delay of a call beyond its nominal time,
\* largest amount of blocks, highest block number
MaxWait == 3
MaxLag == 1
MaxAmount == 2
MaxBlock == 3
\* NonceManager: number of resync calls
MaxResyncs == 3

Threads == 1..NumThreads

(***************************************************************************)
(* Values.                                                                 *)
(***************************************************************************)
\* the sequencer before request_network_nonce has run / no nonce read yet
NoNonce == -1
\* Python's None, for fields that hold non-negative integers otherwise
None == -2
\* threadLock is free
Unlocked == 0
\* HTTPStatus.OK, HTTPStatus.BAD_REQUEST, and "no response yet"
HTTP_OK == 200
HTTP_BAD_REQUEST == 400
NoResponse == 0

VARIABLES
    \* ---- server.py ----
    mainPc,      \* position of __main__: "wait_block", "request_nonce", "app_run", "serving"
    chainCount,  \* the chain's transaction count of the wallet's address
    nonce,       \* NonceManager.nonce (the spec's `assigned`)
    confirmed,   \* the spec's `confirmed`
    threadLock,  \* holder of threadLock, Unlocked when free
    pc,          \* pc[t]: position of request thread t in _sign_and_send
    txNonce,     \* txNonce[t]: transaction_dict['nonce'] of thread t
    outcome,     \* outcome[t]: what wallet.sign_and_send did for thread t
    resp,        \* resp[t]: HTTP status of the last response of thread t
    sent,        \* nonces of the transactions wallet.sign_and_send sent, in order
    n0,          \* history: the chain's count adopted by request_network_nonce
    failNonce,   \* history: nonce of the last failed submit since the last success
    accepted,    \* number of /sign-and-send requests accepted so far
    \* ---- eth.py: convert_tx, calculate_gas ----
    feePc,       \* position in calculate_gas: "idle", "converted", "estimated", "done"
    rawTx,       \* tx.raw_tx: the request's fields, None where not given
    txMultiplier,          \* tx.multiplier, in MultDen-ths, None when not given
    gasMultiplier,         \* config GAS_MULTIPLIER, in MultDen-ths
    disableGasEstimation,  \* config DISABLE_GAS_ESTIMATION
    etx,         \* the dict convert_tx returned
    estimated,   \* what eth_estimateGas returned
    gasLimit,    \* what block_gas_limit returned
    gas,         \* what calculate_gas returned
    feeErr,      \* the exception calculate_gas raised, "none" when it returned
    feeRpc,      \* history: the RPC calls calculate_gas made
    \* ---- eth.py: wait_for_receipt, wait_for_blocks ----
    now,         \* the wall clock, in seconds
    wrPc,        \* position in wait_for_receipt
    wrMaxTime,   \* its max_time
    wrStartTs,   \* its start_ts
    rstatus,     \* its rstatus, None until a receipt is read
    wrResult,    \* how it ended: "none", "returned", "ReceiptTimeoutError", "ProviderError"
    mined,       \* whether the chain has a receipt of tx_hash
    receipt,     \* that receipt, a dict
    wrChecks,    \* history: elapsed time seen by each evaluation of the loop condition
    wrAnswers,   \* history: the set of answers the polls got
    wbPc,        \* position in wait_for_blocks
    wbAmount,    \* its amount
    wbMaxTime,   \* its max_time
    blockNumber, \* the chain's block number
    startBlock, currentBlock, startTs, currentTs,   \* its locals
    wbResult,    \* how it ended: "none", "returned", "BlockTimeoutError"
    wrMinedAtCall,  \* history: whether the receipt was there when wait_for_receipt was called
    wbIters,     \* history: number of times wait_for_blocks entered its loop body
    \* ---- eth.py: is_replacement_underpriced, is_nonce_too_low ----
    clsPc,       \* position of the classification: "start", "underpriced_done", "done"
    errVal,      \* the exception that sending raised
    clsUnderpriced,  \* what is_replacement_underpriced(err) gave
    clsNonceLow,     \* what is_nonce_too_low(err) gave
    \* ---- NonceManager: resync ----
    lastResync   \* history: the state the last resync left, while nothing has happened since

serverVars == <<mainPc, chainCount, nonce, confirmed, threadLock, pc, txNonce,
                outcome, resp, sent, n0, failNonce, accepted>>

feeVars == <<feePc, rawTx, txMultiplier, gasMultiplier, disableGasEstimation,
             etx, estimated, gasLimit, gas, feeErr, feeRpc>>

receiptVars == <<wrPc, wrMaxTime, wrStartTs, rstatus, wrResult, mined, receipt,
                 wrChecks, wrAnswers>>

blockVars == <<wbPc, wbAmount, wbMaxTime, blockNumber, startBlock,
               currentBlock, startTs, currentTs, wbResult>>

classVars == <<clsPc, errVal, clsUnderpriced, clsNonceLow>>

vars == <<serverVars, feeVars, now, receiptVars, blockVars, wrMinedAtCall,
          wbIters, classVars, lastResync>>

(***************************************************************************)
(* NonceManager (spec section 4.3).                                        *)
(***************************************************************************)
\* initialize(): read transactionCount(address), set assigned and confirmed
NonceManager_request_network_nonce ==
    /\ nonce' = chainCount
    /\ confirmed' = chainCount

\* commit(): increments assigned by one
NonceManager_increment ==
    nonce' = nonce + 1

\* next(): returns assigned without mutating state
NonceManager_nonce == nonce

(***************************************************************************)
(* wallet.sign_and_send: the signing collaborator and the RPC endpoint.    *)
(* A nonce below the chain's transaction count is rejected (nonce too      *)
(* low); any call may fail to sign, be rejected as an underpriced          *)
(* replacement, or fail otherwise.                                         *)
(***************************************************************************)
Errors == {"sign_error", "replacement_underpriced", "nonce_too_low", "other"}

WalletOutcomes(n) ==
    IF n < chainCount
    THEN {"nonce_too_low", "sign_error", "other"}
    ELSE {"ok", "sign_error", "replacement_underpriced", "other"}

(***************************************************************************)
(* __main__ of server.py.                                                  *)
(***************************************************************************)
ServerInit ==
    /\ mainPc = "wait_block"
    /\ chainCount \in 0..1
    /\ nonce = NoNonce
    /\ confirmed = NoNonce
    /\ threadLock = Unlocked
    /\ pc = [t \in Threads |-> "idle"]
    /\ txNonce = [t \in Threads |-> NoNonce]
    /\ outcome = [t \in Threads |-> "none"]
    /\ resp = [t \in Threads |-> NoResponse]
    /\ sent = <<>>
    /\ n0 = NoNonce
    /\ failNonce = NoNonce
    /\ accepted = 0

\* the server process is not running
ServerOff ==
    /\ ServerInit
    /\ chainCount = 0

\* wait_for_the_next_block(skale)
WaitForTheNextBlock ==
    /\ mainPc = "wait_block"
    /\ mainPc' = "request_nonce"
    /\ UNCHANGED <<chainCount, nonce, confirmed, threadLock, pc, txNonce,
                   outcome, resp, sent, n0, failNonce, accepted>>
    /\ UNCHANGED <<feeVars, now, receiptVars, blockVars,
                   wrMinedAtCall, wbIters, classVars, lastResync>>

\* nonce_manager.request_network_nonce()
RequestNetworkNonce ==
    /\ mainPc = "request_nonce"
    /\ NonceManager_request_network_nonce
    /\ n0' = chainCount
    /\ mainPc' = "app_run"
    /\ UNCHANGED <<chainCount, threadLock, pc, txNonce, outcome, resp, sent,
                   failNonce, accepted>>
    /\ UNCHANGED <<feeVars, now, receiptVars, blockVars,
                   wrMinedAtCall, wbIters, classVars, lastResync>>

\* an app.run that is reached before request_network_nonce has run
AppRunEarly ==
    /\ mainPc \in {"request_nonce", "app_run"}
    /\ mainPc' = "serving"
    /\ UNCHANGED <<chainCount, nonce, confirmed, threadLock, pc, txNonce,
                   outcome, resp, sent, n0, failNonce, accepted>>
    /\ UNCHANGED <<feeVars, now, receiptVars, blockVars,
                   wrMinedAtCall, wbIters, classVars, lastResync>>

\* app.run(...): from here on Flask hands requests to the handlers
AppRun ==
    /\ mainPc = "app_run"
    /\ mainPc' = "serving"
    /\ UNCHANGED <<chainCount, nonce, confirmed, threadLock, pc, txNonce,
                   outcome, resp, sent, n0, failNonce, accepted>>
    /\ UNCHANGED <<feeVars, now, receiptVars, blockVars,
                   wrMinedAtCall, wbIters, classVars, lastResync>>

\* the chain mines a transaction of the account (ours or an external one)
ChainAdvance ==
    /\ chainCount < MaxChain
    /\ chainCount' = chainCount + 1
    /\ UNCHANGED <<mainPc, nonce, confirmed, threadLock, pc, txNonce, outcome,
                   resp, sent, n0, failNonce, accepted>>
    /\ UNCHANGED <<feeVars, now, receiptVars, blockVars,
                   wrMinedAtCall, wbIters, classVars, lastResync>>

(***************************************************************************)
(* _sign_and_send, one action per statement.                               *)
(***************************************************************************)
\* lines 53-55: Flask dispatches the request, the body is parsed
RequestArrives(t) ==
    /\ mainPc = "serving"
    /\ pc[t] = "idle"
    /\ accepted < MaxRequests
    /\ accepted' = accepted + 1
    /\ pc' = [pc EXCEPT ![t] = "lock"]
    /\ resp' = [resp EXCEPT ![t] = NoResponse]
    /\ UNCHANGED <<mainPc, chainCount, nonce, confirmed, threadLock, txNonce,
                   outcome, sent, n0, failNonce>>
    /\ UNCHANGED <<feeVars, now, receiptVars, blockVars,
                   wrMinedAtCall, wbIters, classVars, lastResync>>

\* a handler that enters the block without taking the lock
AcquireNoLock(t) ==
    /\ pc[t] = "lock"
    /\ pc' = [pc EXCEPT ![t] = "read_nonce"]
    /\ UNCHANGED <<mainPc, chainCount, nonce, confirmed, threadLock, txNonce,
                   outcome, resp, sent, n0, failNonce, accepted>>
    /\ UNCHANGED <<feeVars, now, receiptVars, blockVars,
                   wrMinedAtCall, wbIters, classVars, lastResync>>

\* line 56: with threadLock:
AcquireLock(t) ==
    /\ pc[t] = "lock"
    /\ threadLock = Unlocked
    /\ threadLock' = t
    /\ pc' = [pc EXCEPT ![t] = "read_nonce"]
    /\ UNCHANGED <<mainPc, chainCount, nonce, confirmed, txNonce, outcome,
                   resp, sent, n0, failNonce, accepted>>
    /\ UNCHANGED <<feeVars, now, receiptVars, blockVars,
                   wrMinedAtCall, wbIters, classVars, lastResync>>

\* line 57: transaction_dict['nonce'] = nonce_manager.nonce
ReadNonce(t) ==
    /\ pc[t] = "read_nonce"
    /\ txNonce' = [txNonce EXCEPT ![t] = NonceManager_nonce]
    /\ pc' = [pc EXCEPT ![t] = "send"]
    /\ UNCHANGED <<mainPc, chainCount, nonce, confirmed, threadLock, outcome,
                   resp, sent, n0, failNonce, accepted>>
    /\ UNCHANGED <<feeVars, now, receiptVars, blockVars,
                   wrMinedAtCall, wbIters, classVars, lastResync>>

\* lines 58-60: tx = wallet.sign_and_send(transaction_dict), or an exception
SignAndSend(t) ==
    /\ pc[t] = "send"
    /\ \E o \in WalletOutcomes(txNonce[t]) :
        /\ outcome' = [outcome EXCEPT ![t] = o]
        /\ IF o = "ok"
           THEN /\ sent' = Append(sent, txNonce[t])
                /\ pc' = [pc EXCEPT ![t] = "increment"]
           ELSE /\ sent' = sent
                /\ pc' = [pc EXCEPT ![t] = "except"]
    /\ UNCHANGED <<mainPc, chainCount, nonce, confirmed, threadLock, txNonce,
                   resp, n0, failNonce, accepted>>
    /\ UNCHANGED <<feeVars, now, receiptVars, blockVars,
                   wrMinedAtCall, wbIters, classVars, lastResync>>

\* an except branch that commits the nonce all the same
ReturnErrorCommits(t) ==
    /\ pc[t] = "except"
    /\ NonceManager_increment
    /\ resp' = [resp EXCEPT ![t] = HTTP_BAD_REQUEST]
    /\ failNonce' = txNonce[t]
    /\ threadLock' = IF threadLock = t THEN Unlocked ELSE threadLock
    /\ pc' = [pc EXCEPT ![t] = "idle"]
    /\ txNonce' = [txNonce EXCEPT ![t] = NoNonce]
    /\ outcome' = [outcome EXCEPT ![t] = "none"]
    /\ UNCHANGED <<mainPc, chainCount, confirmed, sent, n0, accepted>>
    /\ UNCHANGED <<feeVars, now, receiptVars, blockVars,
                   wrMinedAtCall, wbIters, classVars, lastResync>>

\* an except branch that returns with threadLock still held
ReturnErrorKeepsLock(t) ==
    /\ pc[t] = "except"
    /\ resp' = [resp EXCEPT ![t] = HTTP_BAD_REQUEST]
    /\ failNonce' = txNonce[t]
    /\ pc' = [pc EXCEPT ![t] = "idle"]
    /\ txNonce' = [txNonce EXCEPT ![t] = NoNonce]
    /\ outcome' = [outcome EXCEPT ![t] = "none"]
    /\ UNCHANGED <<mainPc, chainCount, nonce, confirmed, threadLock, sent, n0,
                   accepted>>
    /\ UNCHANGED <<feeVars, now, receiptVars, blockVars,
                   wrMinedAtCall, wbIters, classVars, lastResync>>

\* lines 60-62: logger.error(e); return construct_err_response(BAD_REQUEST, e)
\* leaving the with block releases threadLock
ReturnError(t) ==
    /\ pc[t] = "except"
    /\ resp' = [resp EXCEPT ![t] = HTTP_BAD_REQUEST]
    /\ failNonce' = txNonce[t]
    /\ threadLock' = IF threadLock = t THEN Unlocked ELSE threadLock
    /\ pc' = [pc EXCEPT ![t] = "idle"]
    /\ txNonce' = [txNonce EXCEPT ![t] = NoNonce]
    /\ outcome' = [outcome EXCEPT ![t] = "none"]
    /\ UNCHANGED <<mainPc, chainCount, nonce, confirmed, sent, n0, accepted>>
    /\ UNCHANGED <<feeVars, now, receiptVars, blockVars,
                   wrMinedAtCall, wbIters, classVars, lastResync>>

\* line 63: nonce_manager.increment()
Increment(t) ==
    /\ pc[t] = "increment"
    /\ NonceManager_increment
    /\ pc' = [pc EXCEPT ![t] = "return_ok"]
    /\ UNCHANGED <<mainPc, chainCount, confirmed, threadLock, txNonce, outcome,
                   resp, sent, n0, failNonce, accepted>>
    /\ UNCHANGED <<feeVars, now, receiptVars, blockVars,
                   wrMinedAtCall, wbIters, classVars, lastResync>>

\* lines 64-65: return construct_ok_response({'transaction_hash': tx})
\* leaving the with block releases threadLock
ReturnOk(t) ==
    /\ pc[t] = "return_ok"
    /\ resp' = [resp EXCEPT ![t] = HTTP_OK]
    /\ failNonce' = NoNonce
    /\ threadLock' = IF threadLock = t THEN Unlocked ELSE threadLock
    /\ pc' = [pc EXCEPT ![t] = "idle"]
    /\ txNonce' = [txNonce EXCEPT ![t] = NoNonce]
    /\ outcome' = [outcome EXCEPT ![t] = "none"]
    /\ UNCHANGED <<mainPc, chainCount, nonce, confirmed, sent, n0, accepted>>
    /\ UNCHANGED <<feeVars, now, receiptVars, blockVars,
                   wrMinedAtCall, wbIters, classVars, lastResync>>

(***************************************************************************)
(* _sign, _sign_hash, _address, _public_key.                               *)
(***************************************************************************)
Endpoints == {"sign", "sign_hash", "address", "public_key"}

\* Flask dispatches a request for one of the other routes
HandlerArrives(t, ep) ==
    /\ mainPc = "serving"
    /\ pc[t] = "idle"
    /\ pc' = [pc EXCEPT ![t] = ep]
    /\ resp' = [resp EXCEPT ![t] = NoResponse]
    /\ UNCHANGED <<mainPc, chainCount, nonce, confirmed, threadLock, txNonce,
                   outcome, sent, n0, failNonce, accepted>>
    /\ UNCHANGED <<feeVars, now, receiptVars, blockVars,
                   wrMinedAtCall, wbIters, classVars, lastResync>>

\* a _sign that runs under threadLock
SignUnderLock(t) ==
    /\ pc[t] = "sign"
    /\ threadLock = Unlocked
    /\ \E status \in {HTTP_OK, HTTP_BAD_REQUEST} :
        resp' = [resp EXCEPT ![t] = status]
    /\ pc' = [pc EXCEPT ![t] = "idle"]
    /\ UNCHANGED <<mainPc, chainCount, nonce, confirmed, threadLock, txNonce,
                   outcome, sent, n0, failNonce, accepted>>
    /\ UNCHANGED <<feeVars, now, receiptVars, blockVars,
                   wrMinedAtCall, wbIters, classVars, lastResync>>

\* lines 70-85: wallet.sign(transaction_dict), 400 when it raises
Sign(t) ==
    /\ pc[t] = "sign"
    /\ \E status \in {HTTP_OK, HTTP_BAD_REQUEST} :
        resp' = [resp EXCEPT ![t] = status]
    /\ pc' = [pc EXCEPT ![t] = "idle"]
    /\ UNCHANGED <<mainPc, chainCount, nonce, confirmed, threadLock, txNonce,
                   outcome, sent, n0, failNonce, accepted>>
    /\ UNCHANGED <<feeVars, now, receiptVars, blockVars,
                   wrMinedAtCall, wbIters, classVars, lastResync>>

\* lines 90-110: wallet.sign_hash(unsigned_hash), 400 when it raises
SignHash(t) ==
    /\ pc[t] = "sign_hash"
    /\ \E status \in {HTTP_OK, HTTP_BAD_REQUEST} :
        resp' = [resp EXCEPT ![t] = status]
    /\ pc' = [pc EXCEPT ![t] = "idle"]
    /\ UNCHANGED <<mainPc, chainCount, nonce, confirmed, threadLock, txNonce,
                   outcome, sent, n0, failNonce, accepted>>
    /\ UNCHANGED <<feeVars, now, receiptVars, blockVars,
                   wrMinedAtCall, wbIters, classVars, lastResync>>

\* lines 115-116: return construct_ok_response({'address': wallet.address})
Address(t) ==
    /\ pc[t] = "address"
    /\ resp' = [resp EXCEPT ![t] = HTTP_OK]
    /\ pc' = [pc EXCEPT ![t] = "idle"]
    /\ UNCHANGED <<mainPc, chainCount, nonce, confirmed, threadLock, txNonce,
                   outcome, sent, n0, failNonce, accepted>>
    /\ UNCHANGED <<feeVars, now, receiptVars, blockVars,
                   wrMinedAtCall, wbIters, classVars, lastResync>>

\* lines 121-122: return construct_ok_response({'public_key': wallet.public_key})
PublicKey(t) ==
    /\ pc[t] = "public_key"
    /\ resp' = [resp EXCEPT ![t] = HTTP_OK]
    /\ pc' = [pc EXCEPT ![t] = "idle"]
    /\ UNCHANGED <<mainPc, chainCount, nonce, confirmed, threadLock, txNonce,
                   outcome, sent, n0, failNonce, accepted>>
    /\ UNCHANGED <<feeVars, now, receiptVars, blockVars,
                   wrMinedAtCall, wbIters, classVars, lastResync>>

ServerNext ==
    \/ WaitForTheNextBlock
    \/ RequestNetworkNonce
    \/ AppRun
    \/ ChainAdvance
    \/ \E t \in Threads : RequestArrives(t)
    \/ \E t \in Threads : AcquireLock(t)
    \/ \E t \in Threads : ReadNonce(t)
    \/ \E t \in Threads : SignAndSend(t)
    \/ \E t \in Threads : ReturnError(t)
    \/ \E t \in Threads : Increment(t)
    \/ \E t \in Threads : ReturnOk(t)

\* the server with its five routes
RoutesNext ==
    \/ ServerNext
    \/ \E t \in Threads, ep \in Endpoints : HandlerArrives(t, ep)
    \/ \E t \in Threads : Sign(t)
    \/ \E t \in Threads : SignHash(t)
    \/ \E t \in Threads : Address(t)
    \/ \E t \in Threads : PublicKey(t)

(***************************************************************************)
(* eth.py: Eth.convert_tx.                                                 *)
(***************************************************************************)
TX_ATTRS == {"from", "to", "value", "nonce", "chainId", "gas", "data",
             "gasPrice", "maxFeePerGas", "maxPriorityFeePerGas"}

\* dict.get(k): None when the key is absent
DictGet(d, k) == IF k \in DOMAIN d THEN d[k] ELSE None

\* d[k] = v
DictPut(d, k, v) == [a \in DOMAIN d \cup {k} |-> IF a = k THEN v ELSE d[a]]

\* d.pop(k, None) (and d.pop(k) of a key that is present)
DictPop(d, k) == [a \in DOMAIN d \ {k} |-> d[a]]

EmptyDict == [a \in {} |-> None]

\* a convert_tx that keeps gasPrice in a fee-market transaction
convert_tx_keeps_gasPrice(raw_tx) ==
    LET etx0 == [attr \in TX_ATTRS |-> raw_tx[attr]]
        etx1 == IF DictGet(etx0, "maxPriorityFeePerGas") # None
                   \/ DictGet(etx0, "maxFeePerGas") # None
                THEN DictPut(etx0, "type", 2)
                ELSE DictPop(DictPop(DictPut(etx0, "type", 1),
                                     "maxPriorityFeePerGas"), "maxFeePerGas")
        etx2 == IF DictGet(etx1, "gas") = None THEN DictPop(etx1, "gas") ELSE etx1
    IN  IF DictGet(etx2, "data") = None THEN DictPop(etx2, "data") ELSE etx2

convert_tx(raw_tx) ==
    LET etx0 == [attr \in TX_ATTRS |-> raw_tx[attr]]
        etx1 == IF DictGet(etx0, "maxPriorityFeePerGas") # None
                   \/ DictGet(etx0, "maxFeePerGas") # None
                THEN DictPop(DictPut(etx0, "type", 2), "gasPrice")
                ELSE DictPop(DictPop(DictPut(etx0, "type", 1),
                                     "maxPriorityFeePerGas"), "maxFeePerGas")
        etx2 == IF DictGet(etx1, "gas") = None THEN DictPop(etx1, "gas") ELSE etx1
    IN  IF DictGet(etx2, "data") = None THEN DictPop(etx2, "data") ELSE etx2

(***************************************************************************)
(* eth.py: Eth.calculate_gas.                                              *)
(***************************************************************************)
\* int(x) of the float num/den: truncation toward zero
IntTrunc(num, den) ==
    IF num >= 0 THEN num \div den ELSE -((-num) \div den)

\* multiplier = tx.multiplier; multiplier = multiplier or GAS_MULTIPLIER
Multiplier ==
    IF txMultiplier = None \/ txMultiplier = 0 THEN gasMultiplier ELSE txMultiplier

OptionalField == {None, 1}

RawTxs ==
    {[attr \in TX_ATTRS |->
        CASE attr = "gas" -> g
          [] attr = "data" -> d
          [] attr = "gasPrice" -> p
          [] attr = "maxFeePerGas" -> f
          [] attr = "maxPriorityFeePerGas" -> q
          [] OTHER -> 1] :
        g \in {None} \cup 0..MaxGas, d \in OptionalField, p \in OptionalField,
        f \in OptionalField, q \in OptionalField}

FeeIdle ==
    /\ feePc = "idle"
    /\ etx = EmptyDict
    /\ estimated = None
    /\ gasLimit = None
    /\ gas = None
    /\ feeErr = "none"
    /\ feeRpc = {}

\* calculate_gas has not been called
FeeOff ==
    /\ FeeIdle
    /\ rawTx = [attr \in TX_ATTRS |-> None]
    /\ txMultiplier = None
    /\ gasMultiplier = MultDen
    /\ disableGasEstimation = FALSE

\* the configuration and the Tx that calculate_gas is called with
FeeInit ==
    /\ FeeIdle
    /\ rawTx \in RawTxs
    /\ txMultiplier \in {None} \cup 0..MaxMult
    /\ gasMultiplier \in 1..MaxMult
    /\ disableGasEstimation \in BOOLEAN

\* lines 124-126: etx = self.convert_tx(tx)
ConvertTx ==
    /\ feePc = "idle"
    /\ etx' = convert_tx(rawTx)
    /\ feePc' = "converted"
    /\ UNCHANGED <<rawTx, txMultiplier, gasMultiplier, disableGasEstimation,
                   estimated, gasLimit, gas, feeErr, feeRpc>>
    /\ UNCHANGED <<serverVars, now, receiptVars, blockVars,
                   wrMinedAtCall, wbIters, classVars, lastResync>>

\* lines 127-128: return int(etx['gas'] * multiplier)
ReturnRequestedGas ==
    /\ feePc = "converted"
    /\ disableGasEstimation
    /\ IF "gas" \in DOMAIN etx
       THEN /\ gas' = IntTrunc(etx["gas"] * Multiplier, MultDen)
            /\ feeErr' = feeErr
       ELSE /\ gas' = gas
            /\ feeErr' = "KeyError"
    /\ feePc' = "done"
    /\ UNCHANGED <<rawTx, txMultiplier, gasMultiplier, disableGasEstimation,
                   etx, estimated, gasLimit, feeRpc>>
    /\ UNCHANGED <<serverVars, now, receiptVars, blockVars,
                   wrMinedAtCall, wbIters, classVars, lastResync>>

\* lines 130-137: estimated = estimate_gas(etx); gas = int(estimated * multiplier)
EstimateGas ==
    /\ feePc = "converted"
    /\ ~disableGasEstimation
    /\ \E e \in 0..MaxEstimate :
        /\ estimated' = e
        /\ gas' = IntTrunc(e * Multiplier, MultDen)
    /\ feeRpc' = feeRpc \cup {"estimate_gas"}
    /\ feePc' = "estimated"
    /\ UNCHANGED <<rawTx, txMultiplier, gasMultiplier, disableGasEstimation,
                   etx, gasLimit, feeErr>>
    /\ UNCHANGED <<serverVars, now, receiptVars, blockVars,
                   wrMinedAtCall, wbIters, classVars, lastResync>>

\* lines 131-134: estimate_gas raises (the call would revert, or the provider fails)
EstimateGasFails ==
    /\ feePc = "converted"
    /\ ~disableGasEstimation
    /\ feeRpc' = feeRpc \cup {"estimate_gas"}
    /\ feeErr' = "EstimationError"
    /\ feePc' = "done"
    /\ UNCHANGED <<rawTx, txMultiplier, gasMultiplier, disableGasEstimation,
                   etx, estimated, gasLimit, gas>>
    /\ UNCHANGED <<serverVars, now, receiptVars, blockVars,
                   wrMinedAtCall, wbIters, classVars, lastResync>>

\* a calculate_gas that returns the multiplied estimate as it is
ClampGasMissing ==
    /\ feePc = "estimated"
    /\ \E limit \in 1..MaxBlockGasLimit : gasLimit' = limit
    /\ feeRpc' = feeRpc \cup {"block_gas_limit"}
    /\ feePc' = "done"
    /\ UNCHANGED <<rawTx, txMultiplier, gasMultiplier, disableGasEstimation,
                   etx, estimated, gas, feeErr>>
    /\ UNCHANGED <<serverVars, now, receiptVars, blockVars,
                   wrMinedAtCall, wbIters, classVars, lastResync>>

\* lines 138-147: gas_limit = self.block_gas_limit; if gas > gas_limit: gas = gas_limit
ClampGas ==
    /\ feePc = "estimated"
    /\ \E limit \in 1..MaxBlockGasLimit :
        /\ gasLimit' = limit
        /\ gas' = IF gas > limit THEN limit ELSE gas
    /\ feeRpc' = feeRpc \cup {"block_gas_limit"}
    /\ feePc' = "done"
    /\ UNCHANGED <<rawTx, txMultiplier, gasMultiplier, disableGasEstimation,
                   etx, estimated, feeErr>>
    /\ UNCHANGED <<serverVars, now, receiptVars, blockVars,
                   wrMinedAtCall, wbIters, classVars, lastResync>>

FeeNext ==
    \/ ConvertTx
    \/ ReturnRequestedGas
    \/ EstimateGas
    \/ EstimateGasFails
    \/ ClampGas

(***************************************************************************)
(* eth.py: Eth.get_status and Eth.wait_for_receipt.                        *)
(***************************************************************************)
\* the receipts a node may hold: without a status field, reverted, successful
Receipts == {[blockNumber |-> 1],
             [blockNumber |-> 1, status |-> 0],
             [blockNumber |-> 1, status |-> 1]}

\* what get_transaction_receipt does: the receipt, TransactionNotFound, or
\* another provider/transport error
ReceiptAnswers == IF mined THEN {"receipt", "error"} ELSE {"not_found", "error"}

\* dict.get(k, default)
DictGetDefault(d, k, default) == IF k \in DOMAIN d THEN d[k] ELSE default

\* a get_status that reads the status with receipt.get('status')
get_status_without_default(answer, r, raise_err) ==
    IF answer = "not_found"
    THEN IF raise_err
         THEN [raised |-> "TransactionNotFound", value |-> None]
         ELSE [raised |-> "none", value |-> -1]
    ELSE IF answer = "error"
    THEN [raised |-> "ProviderError", value |-> None]
    ELSE [raised |-> "none", value |-> DictGetDefault(r, "status", None)]

\* a get_status that takes every exception of the lookup for "not found"
get_status_catches_all(answer, r, raise_err) ==
    IF answer \in {"not_found", "error"}
    THEN IF raise_err
         THEN [raised |-> "TransactionNotFound", value |-> None]
         ELSE [raised |-> "none", value |-> -1]
    ELSE [raised |-> "none", value |-> DictGetDefault(r, "status", -1)]

\* get_status(tx_hash, raise_err): what it raises and what it returns
get_status(answer, r, raise_err) ==
    IF answer = "not_found"
    THEN IF raise_err
         THEN [raised |-> "TransactionNotFound", value |-> None]
         ELSE [raised |-> "none", value |-> -1]
    ELSE IF answer = "error"
    THEN [raised |-> "ProviderError", value |-> None]
    ELSE [raised |-> "none", value |-> DictGetDefault(r, "status", -1)]

ClockInit == now = 0

\* wait_for_receipt has not been called
ReceiptOff ==
    /\ wrPc = "idle"
    /\ wrMaxTime = 0
    /\ wrStartTs = None
    /\ rstatus = None
    /\ wrResult = "none"
    /\ mined = FALSE
    /\ receipt = [blockNumber |-> 1]
    /\ wrChecks = <<>>
    /\ wrAnswers = {}
    /\ wrMinedAtCall = FALSE

\* the max_time it is called with, and the chain's receipt of tx_hash
ReceiptInit ==
    /\ wrPc = "idle"
    /\ wrMaxTime \in 0..MaxWait
    /\ wrStartTs = None
    /\ rstatus = None
    /\ wrResult = "none"
    /\ mined \in BOOLEAN
    /\ receipt \in Receipts
    /\ wrChecks = <<>>
    /\ wrAnswers = {}
    /\ wrMinedAtCall = FALSE

\* lines 201-202: start_ts = time.time(); rstatus = None
WaitForReceiptCall ==
    /\ wrPc = "idle"
    /\ wrStartTs' = now
    /\ rstatus' = None
    /\ wrMinedAtCall' = mined
    /\ wrPc' = "check"
    /\ UNCHANGED <<now, wrMaxTime, wrResult, mined, receipt, wrChecks, wrAnswers>>
    /\ UNCHANGED <<serverVars, feeVars, blockVars, wbIters, classVars, lastResync>>

\* a loop condition that still polls when exactly max_time has elapsed
ReceiptLoopCheckLate ==
    /\ wrPc = "check"
    /\ wrChecks' = IF rstatus = None
                   THEN Append(wrChecks, now - wrStartTs) ELSE wrChecks
    /\ wrPc' = IF rstatus = None /\ now - wrStartTs <= wrMaxTime
               THEN "poll" ELSE "after"
    /\ UNCHANGED <<now, wrMaxTime, wrStartTs, rstatus, wrResult, mined, receipt,
                   wrAnswers>>
    /\ UNCHANGED <<serverVars, feeVars, blockVars, wbIters, classVars, lastResync>>
    /\ UNCHANGED wrMinedAtCall

\* line 203: while rstatus is None and time.time() - start_ts < max_time
ReceiptLoopCheck ==
    /\ wrPc = "check"
    /\ wrChecks' = IF rstatus = None
                   THEN Append(wrChecks, now - wrStartTs) ELSE wrChecks
    /\ wrPc' = IF rstatus = None /\ now - wrStartTs < wrMaxTime
               THEN "poll" ELSE "after"
    /\ UNCHANGED <<now, wrMaxTime, wrStartTs, rstatus, wrResult, mined, receipt,
                   wrAnswers>>
    /\ UNCHANGED <<serverVars, feeVars, blockVars, wbIters, classVars, lastResync>>
    /\ UNCHANGED wrMinedAtCall

\* lines 204-206: rstatus = self.get_status(tx_hash, raise_err=True)
ReceiptPoll ==
    /\ wrPc = "poll"
    /\ \E lag \in 0..MaxLag : now' = now + lag
    /\ \E answer \in ReceiptAnswers :
        LET res == get_status(answer, receipt, TRUE) IN
        /\ wrAnswers' = wrAnswers \cup {answer}
        /\ CASE res.raised = "TransactionNotFound" ->
                  /\ wrPc' = "sleep"
                  /\ UNCHANGED <<rstatus, wrResult>>
             [] res.raised = "ProviderError" ->
                  /\ wrPc' = "done"
                  /\ wrResult' = "ProviderError"
                  /\ UNCHANGED rstatus
             [] OTHER ->
                  /\ wrPc' = "check"
                  /\ rstatus' = res.value
                  /\ UNCHANGED wrResult
    /\ UNCHANGED <<wrMaxTime, wrStartTs, mined, receipt, wrChecks>>
    /\ UNCHANGED <<serverVars, feeVars, blockVars, wbIters, classVars, lastResync>>
    /\ UNCHANGED wrMinedAtCall

\* a loop that polls again without sleeping
ReceiptSleepMissing ==
    /\ wrPc = "sleep"
    /\ wrPc' = "check"
    /\ UNCHANGED <<now, wrMaxTime, wrStartTs, rstatus, wrResult, mined, receipt,
                   wrChecks, wrAnswers>>
    /\ UNCHANGED <<serverVars, feeVars, blockVars, wbIters, classVars, lastResync>>
    /\ UNCHANGED wrMinedAtCall

\* line 207: time.sleep(1)
ReceiptSleep ==
    /\ wrPc = "sleep"
    /\ \E lag \in 0..MaxLag : now' = now + 1 + lag
    /\ wrPc' = "check"
    /\ UNCHANGED <<wrMaxTime, wrStartTs, rstatus, wrResult, mined, receipt,
                   wrChecks, wrAnswers>>
    /\ UNCHANGED <<serverVars, feeVars, blockVars, wbIters, classVars, lastResync>>
    /\ UNCHANGED wrMinedAtCall

\* lines 209-211: raise ReceiptTimeoutError, or return rstatus
ReceiptAfterLoop ==
    /\ wrPc = "after"
    /\ wrResult' = IF rstatus = None THEN "ReceiptTimeoutError" ELSE "returned"
    /\ wrPc' = "done"
    /\ UNCHANGED <<now, wrMaxTime, wrStartTs, rstatus, mined, receipt, wrChecks,
                   wrAnswers>>
    /\ UNCHANGED <<serverVars, feeVars, blockVars, wbIters, classVars, lastResync>>
    /\ UNCHANGED wrMinedAtCall

\* the chain mines the transaction
Mine ==
    /\ wrPc \notin {"idle", "done"}
    /\ ~mined
    /\ mined' = TRUE
    /\ UNCHANGED <<now, wrPc, wrMaxTime, wrStartTs, rstatus, wrResult, receipt,
                   wrChecks, wrAnswers>>
    /\ UNCHANGED <<serverVars, feeVars, blockVars, wbIters, classVars, lastResync>>
    /\ UNCHANGED wrMinedAtCall

ReceiptNext ==
    \/ WaitForReceiptCall
    \/ ReceiptLoopCheck
    \/ ReceiptPoll
    \/ ReceiptSleep
    \/ ReceiptAfterLoop
    \/ Mine

(***************************************************************************)
(* eth.py: Eth.wait_for_blocks.                                            *)
(***************************************************************************)
\* the block numbers a node may report next: the chain grows, and a node
\* behind the last one asked reports less
NextBlockNumbers ==
    {b \in 0..MaxBlock : blockNumber - 1 <= b /\ b <= blockNumber + 2}

\* wait_for_blocks has not been called
BlocksOff ==
    /\ wbPc = "idle"
    /\ wbAmount = 0
    /\ wbMaxTime = 0
    /\ blockNumber = 0
    /\ startBlock = None
    /\ currentBlock = None
    /\ startTs = None
    /\ currentTs = None
    /\ wbResult = "none"
    /\ wbIters = 0

\* the amount and max_time it is called with, and the chain's block number
BlocksInit ==
    /\ wbPc = "idle"
    /\ wbAmount \in 0..MaxAmount
    /\ wbMaxTime \in 0..MaxWait
    /\ blockNumber \in 0..1
    /\ startBlock = None
    /\ currentBlock = None
    /\ startTs = None
    /\ currentTs = None
    /\ wbResult = "none"
    /\ wbIters = 0

\* lines 184-185: current_block = start_block = block_number;
\*                current_ts = start_ts = time.time()
WaitForBlocksCall ==
    /\ wbPc = "idle"
    /\ startBlock' = blockNumber
    /\ currentBlock' = blockNumber
    /\ startTs' = now
    /\ currentTs' = now
    /\ wbPc' = "check"
    /\ UNCHANGED <<now, wbAmount, wbMaxTime, blockNumber, wbResult>>
    /\ UNCHANGED <<serverVars, feeVars, receiptVars, wrMinedAtCall, classVars,
                   lastResync>>
    /\ UNCHANGED wbIters

\* lines 186-187: while current_block - start_block < amount and
\*                      current_ts - start_ts < max_time
BlocksLoopCheck ==
    /\ wbPc = "check"
    /\ wbPc' = IF currentBlock - startBlock < wbAmount
                  /\ currentTs - startTs < wbMaxTime
               THEN "sleep" ELSE "after"
    /\ UNCHANGED <<now, wbAmount, wbMaxTime, blockNumber, startBlock,
                   currentBlock, startTs, currentTs, wbResult>>
    /\ UNCHANGED <<serverVars, feeVars, receiptVars, wrMinedAtCall, classVars,
                   lastResync>>
    /\ UNCHANGED wbIters

\* lines 188-190: time.sleep(1); current_block = block_number;
\*                current_ts = time.time()
BlocksSleepAndRead ==
    /\ wbPc = "sleep"
    /\ \E lag \in 0..MaxLag :
        /\ now' = now + 1 + lag
        /\ currentTs' = now + 1 + lag
    /\ \E b \in NextBlockNumbers :
        /\ blockNumber' = b
        /\ currentBlock' = b
    /\ wbPc' = "check"
    /\ UNCHANGED <<wbAmount, wbMaxTime, startBlock, startTs, wbResult>>
    /\ UNCHANGED <<serverVars, feeVars, receiptVars, wrMinedAtCall, classVars,
                   lastResync>>
    /\ wbIters' = wbIters + 1

\* line 189: the block_number call fails, the error propagates
BlocksReadFails ==
    /\ wbPc = "sleep"
    /\ \E lag \in 0..MaxLag : now' = now + 1 + lag
    /\ wbResult' = "ProviderError"
    /\ wbPc' = "done"
    /\ UNCHANGED <<wbAmount, wbMaxTime, blockNumber, startBlock, currentBlock,
                   startTs, currentTs>>
    /\ UNCHANGED <<serverVars, feeVars, receiptVars, wrMinedAtCall, classVars,
                   lastResync>>
    /\ wbIters' = wbIters + 1

\* a final test on the time instead of the blocks
BlocksAfterLoopByTime ==
    /\ wbPc = "after"
    /\ wbResult' = IF currentTs - startTs >= wbMaxTime
                   THEN "BlockTimeoutError" ELSE "returned"
    /\ wbPc' = "done"
    /\ UNCHANGED <<now, wbAmount, wbMaxTime, blockNumber, startBlock,
                   currentBlock, startTs, currentTs>>
    /\ UNCHANGED <<serverVars, feeVars, receiptVars, wrMinedAtCall, classVars,
                   lastResync>>
    /\ UNCHANGED wbIters

\* lines 191-194: if current_block - start_block < amount: raise BlockTimeoutError
BlocksAfterLoop ==
    /\ wbPc = "after"
    /\ wbResult' = IF currentBlock - startBlock < wbAmount
                   THEN "BlockTimeoutError" ELSE "returned"
    /\ wbPc' = "done"
    /\ UNCHANGED <<now, wbAmount, wbMaxTime, blockNumber, startBlock,
                   currentBlock, startTs, currentTs>>
    /\ UNCHANGED <<serverVars, feeVars, receiptVars, wrMinedAtCall, classVars,
                   lastResync>>
    /\ UNCHANGED wbIters

BlocksNext ==
    \/ WaitForBlocksCall
    \/ BlocksLoopCheck
    \/ BlocksSleepAndRead
    \/ BlocksReadFails
    \/ BlocksAfterLoop

WaitOff == ClockInit /\ ReceiptOff /\ BlocksOff
(***************************************************************************)
(* eth.py: is_replacement_underpriced and is_nonce_too_low.                *)
(* An exception is its class (ValueError or not) and its args; args[0],    *)
(* when there is one, is a str or a dict, and the dict may hold a          *)
(* 'message', a str (here a sequence of words) or None.                    *)
(***************************************************************************)
Messages == {<<"replacement", "transaction", "underpriced">>,
             <<"nonce", "too", "low">>,
             <<"nonce", "too", "high">>,
             <<"insufficient", "funds">>,
             <<"already", "known">>}

\* args: "empty" (), "str" (a message string), "dict" ({'code':..}),
\* "dict_message" ({'message': a str}), "dict_none" ({'message': None})
ArgShapes == {"empty", "str", "dict", "dict_message", "dict_none"}

ErrorValues ==
    [isValueError : BOOLEAN, args : ArgShapes, message : Messages]

\* 'nonce' in message, for a str
ContainsNonce(message) == \E i \in 1..Len(message) : message[i] = "nonce"

\* lines 52-55; the result is "True", "False" or the exception raised
is_replacement_underpriced(err) ==
    IF ~err.isValueError THEN "False"
    ELSE IF err.args = "empty" THEN "IndexError"
    ELSE IF err.args = "str" THEN "False"
    ELSE IF err.args = "dict_message"
            /\ err.message = <<"replacement", "transaction", "underpriced">>
         THEN "True"
    ELSE "False"

\* lines 58-59; the result is "True", "False" or the exception raised
is_nonce_too_low(err) ==
    IF ~err.isValueError THEN "False"
    ELSE IF err.args = "empty" THEN "IndexError"
    ELSE IF err.args = "str" THEN "TypeError"
    ELSE IF err.args = "dict" THEN "KeyError"
    ELSE IF err.args = "dict_none" THEN "TypeError"
    ELSE IF ContainsNonce(err.message) THEN "True"
    ELSE "False"

\* no exception is being classified
ClassOff ==
    /\ clsPc = "start"
    /\ errVal = [isValueError |-> FALSE, args |-> "empty",
                 message |-> <<"already", "known">>]
    /\ clsUnderpriced = "none"
    /\ clsNonceLow = "none"

\* the exception that send_raw_transaction raised
ClassInit ==
    /\ clsPc = "start"
    /\ errVal \in ErrorValues
    /\ clsUnderpriced = "none"
    /\ clsNonceLow = "none"

ClassifyUnderpriced ==
    /\ clsPc = "start"
    /\ clsUnderpriced' = is_replacement_underpriced(errVal)
    /\ clsPc' = "underpriced_done"
    /\ UNCHANGED <<errVal, clsNonceLow>>
    /\ UNCHANGED <<serverVars, feeVars, now, receiptVars, blockVars,
                   wrMinedAtCall, wbIters, lastResync>>

ClassifyNonceTooLow ==
    /\ clsPc = "underpriced_done"
    /\ clsNonceLow' = is_nonce_too_low(errVal)
    /\ clsPc' = "done"
    /\ UNCHANGED <<errVal, clsUnderpriced>>
    /\ UNCHANGED <<serverVars, feeVars, now, receiptVars, blockVars,
                   wrMinedAtCall, wbIters, lastResync>>

ClassNext ==
    \/ ClassifyUnderpriced
    \/ ClassifyNonceTooLow

(***************************************************************************)
(* NonceManager: resync (spec section 4.3), called again while the         *)
(* service runs.                                                           *)
(***************************************************************************)
\* a resync that adopts the network value whatever the local one is
NonceManager_resync_adopts_always ==
    /\ nonce' = chainCount
    /\ confirmed' = chainCount

\* resync(): adopt the network value for assigned and confirmed when it
\* exceeds assigned, keep the local state when it does not
NonceManager_resync ==
    IF chainCount > nonce
    THEN /\ nonce' = chainCount
         /\ confirmed' = chainCount
    ELSE UNCHANGED <<nonce, confirmed>>

\* no resync has been called
ResyncOff ==
    lastResync = [calls |-> 0, nonce |-> NoNonce, confirmed |-> NoNonce,
                  chain |-> NoNonce]

Resync ==
    /\ mainPc = "serving"
    /\ lastResync.calls < MaxResyncs
    /\ NonceManager_resync
    /\ lastResync' = [calls |-> lastResync.calls + 1, nonce |-> nonce',
                      confirmed |-> confirmed', chain |-> chainCount]
    /\ UNCHANGED <<mainPc, chainCount, threadLock, pc, txNonce, outcome, resp,
                   sent, n0, failNonce, accepted>>
    /\ UNCHANGED <<feeVars, now, receiptVars, blockVars, wrMinedAtCall,
                   wbIters, classVars>>

\* a submission is committed: commit()
ResyncCommit ==
    /\ mainPc = "serving"
    /\ accepted < MaxRequests
    /\ accepted' = accepted + 1
    /\ NonceManager_increment
    /\ UNCHANGED <<mainPc, chainCount, confirmed, threadLock, pc, txNonce,
                   outcome, resp, sent, n0, failNonce>>
    /\ UNCHANGED <<feeVars, now, receiptVars, blockVars, wrMinedAtCall,
                   wbIters, classVars, lastResync>>

ResyncNext ==
    \/ WaitForTheNextBlock
    \/ RequestNetworkNonce
    \/ AppRun
    \/ ChainAdvance
    \/ Resync
    \/ ResyncCommit

(***************************************************************************)
(* The specifications: one per component, the others not running.          *)
(***************************************************************************)
Init == ServerInit /\ FeeOff /\ WaitOff /\ ClassOff /\ ResyncOff

Next == ServerNext

Spec == Init /\ [][Next]_vars

InitFee == ServerOff /\ FeeInit /\ WaitOff /\ ClassOff /\ ResyncOff

SpecFee == InitFee /\ [][FeeNext]_vars

InitReceipt ==
    /\ ServerOff /\ FeeOff /\ ClockInit /\ ReceiptInit /\ BlocksOff
    /\ ClassOff /\ ResyncOff

SpecReceipt == InitReceipt /\ [][ReceiptNext]_vars

InitBlocks ==
    /\ ServerOff /\ FeeOff /\ ClockInit /\ ReceiptOff /\ BlocksInit
    /\ ClassOff /\ ResyncOff

SpecBlocks == InitBlocks /\ [][BlocksNext]_vars

InitClass == ServerOff /\ FeeOff /\ WaitOff /\ ClassInit /\ ResyncOff

SpecClass == InitClass /\ [][ClassNext]_vars

SpecResync == Init /\ [][ResyncNext]_vars

SpecRoutes == Init /\ [][RoutesNext]_vars

\* the threads run: a statement that can be executed is executed, and a
\* thread waiting for threadLock gets it when it is free again and again
HandlerSteps(t) ==
    \/ ReadNonce(t)
    \/ SignAndSend(t)
    \/ ReturnError(t)
    \/ Increment(t)
    \/ ReturnOk(t)

SpecFair ==
    /\ Init
    /\ [][Next]_vars
    /\ \A t \in Threads : WF_vars(HandlerSteps(t)) /\ SF_vars(AcquireLock(t))

\* wait_for_receipt and wait_for_blocks side by side: one of them is called
\* with any of its arguments, the other with max_time 0; every call and
\* every sleep returns
InitWait == InitReceipt \/ InitBlocks

ReceiptSteps ==
    \/ WaitForReceiptCall
    \/ ReceiptLoopCheck
    \/ ReceiptPoll
    \/ ReceiptSleep
    \/ ReceiptAfterLoop

WaitNext == ReceiptNext \/ BlocksNext

SpecWaitFair ==
    /\ InitWait
    /\ [][WaitNext]_vars
    /\ WF_vars(ReceiptSteps)
    /\ WF_vars(BlocksNext)

(***************************************************************************)
(* Properties of /sign-and-send (server.py), checked under Spec.           *)
(***************************************************************************)
\* from the read of nonce_manager.nonce to the return of the handler
InSection == {"read_nonce", "send", "except", "increment", "return_ok"}

\* the nonce has been read into transaction_dict
HasReadNonce == {"send", "except", "increment", "return_ok"}

\* C1: the nonces of the transactions sent are n0, n0+1, n0+2, ... in this
\* order: none is used twice and none is skipped, whatever the interleaving
\* of the requests and whichever of them fail.
C1_NonceUniqueness ==
    \A i \in 1..Len(sent) : sent[i] = n0 + i - 1

C1_Witness ==
    /\ Len(sent) >= 2
    /\ \E t \in Threads : pc[t] = "lock"

\* C2: at most one request thread is between its read of the nonce and its
\* return, and that thread holds threadLock.
C2_MutualExclusion ==
    /\ Cardinality({t \in Threads : pc[t] \in InSection}) <= 1
    /\ \A t \in Threads : pc[t] \in InSection => threadLock = t

C2_Witness ==
    \E t, u \in Threads : t # u /\ pc[t] = "send" /\ pc[u] = "lock"

\* C3: a request whose wallet.sign_and_send raised returns 400 and leaves the
\* sequencer's nonce at the value the request read, and the next transaction
\* that is sent carries that same nonce.
C3_FailedSubmitKeepsNonce ==
    [][/\ \A t \in Threads :
            (pc[t] = "except" /\ pc'[t] = "idle") =>
                /\ resp'[t] = HTTP_BAD_REQUEST
                /\ nonce' = nonce
                /\ nonce' = txNonce[t]
       /\ (Len(sent') > Len(sent) /\ failNonce # NoNonce) =>
                sent'[Len(sent')] = failNonce]_vars

C3_Witness ==
    /\ failNonce # NoNonce
    /\ \E t \in Threads : pc[t] = "increment" /\ txNonce[t] = failNonce
    /\ sent # <<>>
    /\ sent[Len(sent)] = failNonce

\* C4: a request rejected with nonce-too-low resynchronises the sequencer
\* before it returns: on its return assigned = confirmed = the chain's
\* transaction count.
C4_StaleNonceResyncs ==
    [][\A t \in Threads :
         (pc[t] = "except" /\ outcome[t] = "nonce_too_low" /\ pc'[t] = "idle") =>
             /\ nonce' = chainCount'
             /\ confirmed' = chainCount']_vars

\* C5: while the service runs the sequencer's nonce never decreases, it
\* changes only by the increment of a request whose transaction was sent,
\* by exactly one, and a request that returns a hash leaves it one above
\* the nonce it used.
C5_Monotonic ==
    [][mainPc = "serving" =>
         /\ nonce' >= nonce
         /\ nonce' # nonce =>
              /\ nonce' = nonce + 1
              /\ \E t \in Threads : pc[t] = "increment" /\ pc'[t] = "return_ok"
         /\ \A t \in Threads :
              (pc[t] = "return_ok" /\ pc'[t] = "idle") =>
                  /\ resp'[t] = HTTP_OK
                  /\ nonce' = txNonce[t] + 1]_vars

C5_Witness ==
    /\ n0 # NoNonce
    /\ nonce >= n0 + 2
    /\ failNonce # NoNonce

\* C6: a request is handled only once __main__ has reached app.run, which is
\* after request_network_nonce; every nonce a request has read is one the
\* sequencer got from the chain.
C6_InitBeforeService ==
    \A t \in Threads :
        /\ pc[t] # "idle" => (mainPc = "serving" /\ n0 # NoNonce)
        /\ pc[t] \in HasReadNonce => (txNonce[t] # NoNonce /\ txNonce[t] >= n0)

C6_Witness ==
    \E t \in Threads : pc[t] = "send" /\ txNonce[t] = n0 /\ n0 = 1

(***************************************************************************)
(* Properties of convert_tx and calculate_gas, checked under SpecFee.      *)
(***************************************************************************)
FeeMarketFields == {"maxFeePerGas", "maxPriorityFeePerGas"}

\* C7: the dict convert_tx returns never holds gasPrice together with a
\* fee-market field; it is type 2 without gasPrice when the request gives a
\* non-null maxFeePerGas or maxPriorityFeePerGas, and type 1 without either
\* fee-market field otherwise.
C7_PricingShapeExclusive ==
    feePc # "idle" =>
        /\ ~("gasPrice" \in DOMAIN etx /\ FeeMarketFields \cap DOMAIN etx # {})
        /\ IF rawTx["maxFeePerGas"] # None \/ rawTx["maxPriorityFeePerGas"] # None
           THEN etx["type"] = 2 /\ "gasPrice" \notin DOMAIN etx
           ELSE etx["type"] = 1 /\ FeeMarketFields \cap DOMAIN etx = {}

C7_Witness ==
    /\ feePc = "converted"
    /\ rawTx["gasPrice"] # None
    /\ rawTx["maxFeePerGas"] # None
    /\ rawTx["maxPriorityFeePerGas"] = None
    /\ etx["type"] = 2

Min(a, b) == IF a <= b THEN a ELSE b

\* C8: with gas estimation enabled calculate_gas returns
\* min(floor(estimate * multiplier), blockGasLimit), where multiplier is the
\* one the code multiplies by; when estimate * multiplier exceeds the block
\* gas limit the result is the block gas limit, and nothing is raised.
C8_GasClamp ==
    (feePc = "done" /\ ~disableGasEstimation /\ feeErr = "none") =>
        /\ gas = Min((estimated * Multiplier) \div MultDen, gasLimit)
        /\ estimated * Multiplier > gasLimit * MultDen => gas = gasLimit

C8_Witness ==
    /\ feePc = "done"
    /\ ~disableGasEstimation
    /\ feeErr = "none"
    /\ estimated * Multiplier > gasLimit * MultDen
    /\ (estimated * Multiplier) \div MultDen > gasLimit
    /\ gas = gasLimit

(***************************************************************************)
(* Properties of wait_for_receipt, checked under SpecReceipt.              *)
(***************************************************************************)
\* C9: when no receipt ever appears and every lookup answers, the wait ends
\* with ReceiptTimeoutError and no status; not before max_time has elapsed;
\* at the first evaluation of the loop condition that finds elapsed >=
\* max_time, the evaluations being at least one second apart.
C9_TimeoutFidelity ==
    /\ wrResult = "ReceiptTimeoutError" => now - wrStartTs >= wrMaxTime
    /\ (wrPc = "done" /\ ~mined /\ "error" \notin wrAnswers) =>
        /\ wrResult = "ReceiptTimeoutError"
        /\ rstatus = None
        /\ wrChecks # <<>>
        /\ wrChecks[Len(wrChecks)] >= wrMaxTime
        /\ \A i \in 1..(Len(wrChecks) - 1) :
              /\ wrChecks[i] < wrMaxTime
              /\ wrChecks[i + 1] >= wrChecks[i] + 1

C9_Witness ==
    /\ wrPc = "done"
    /\ ~mined
    /\ wrResult = "ReceiptTimeoutError"
    /\ wrMaxTime >= 2
    /\ Len(wrChecks) >= 3

(***************************************************************************)
(* Properties of wait_for_blocks, checked under SpecBlocks.                *)
(***************************************************************************)
\* C10: when every block_number call answers, wait_for_blocks returns
\* normally exactly when the last block number it read is at least amount
\* above the one read at the call, and raises BlockTimeoutError otherwise;
\* it raises only when at least max_time has elapsed since the call.
C10_WaitForBlocksOutcome ==
    (wbPc = "done" /\ wbResult # "ProviderError") =>
        /\ wbResult \in {"returned", "BlockTimeoutError"}
        /\ wbResult = "returned" <=> currentBlock - startBlock >= wbAmount
        /\ wbResult = "BlockTimeoutError" =>
              /\ currentTs - startTs >= wbMaxTime
              /\ now - startTs >= wbMaxTime

C10_Witness ==
    /\ wbPc = "done"
    /\ wbResult = "BlockTimeoutError"
    /\ wbMaxTime >= 2
    /\ currentBlock > startBlock

C10_WitnessReturned ==
    /\ wbPc = "done"
    /\ wbResult = "returned"
    /\ wbAmount >= 2
    /\ now - startTs < wbMaxTime

(***************************************************************************)
(* Termination of the two waits, checked under SpecWaitFair.               *)
(***************************************************************************)
\* the number of lookups wait_for_receipt has started
ReceiptPolls ==
    Cardinality({i \in 1..Len(wrChecks) : wrChecks[i] < wrMaxTime})

\* C11: wait_for_receipt and wait_for_blocks both end, whatever the chain
\* does, and neither runs its loop body more than max_time times.
C11_NoUnboundedWait ==
    /\ <>(wrPc = "done")
    /\ <>(wbPc = "done")
    /\ [](ReceiptPolls <= wrMaxTime /\ wbIters <= wbMaxTime)

C11_Witness ==
    /\ wrPc = "done"
    /\ wbPc = "done"
    /\ wrResult = "ReceiptTimeoutError"
    /\ ~mined
    /\ ReceiptPolls = MaxWait

C11_WitnessBlocks ==
    /\ wrPc = "done"
    /\ wbPc = "done"
    /\ wbResult = "BlockTimeoutError"
    /\ currentBlock = startBlock
    /\ wbIters = MaxWait

(***************************************************************************)
(* Classification of submission errors, checked under SpecClass.           *)
(***************************************************************************)
\* C12: for every exception both predicates return a boolean, and they are
\* never both true.
C12_ClassificationPartition ==
    /\ clsPc # "start" => clsUnderpriced \in {"True", "False"}
    /\ clsPc = "done" =>
         /\ clsNonceLow \in {"True", "False"}
         /\ ~(clsUnderpriced = "True" /\ clsNonceLow = "True")

(***************************************************************************)
(* Resync, checked under SpecResync.                                       *)
(***************************************************************************)
\* C13: a resync called in the state the previous resync left, the chain's
\* count being what it was, changes nothing; a resync that finds the chain's
\* count behind the local nonce keeps the local nonce.
C13_ResyncIdempotent ==
    [][lastResync'.calls = lastResync.calls + 1 =>
         /\ (/\ lastResync.calls > 0
             /\ lastResync.chain = chainCount
             /\ lastResync.nonce = nonce
             /\ lastResync.confirmed = confirmed) =>
                (nonce' = nonce /\ confirmed' = confirmed)
         /\ chainCount < nonce => (nonce' = nonce /\ confirmed' = confirmed)
         /\ chainCount > nonce => (nonce' = chainCount /\ confirmed' = chainCount)
      ]_vars

C13_Witness ==
    /\ lastResync.calls >= 2
    /\ lastResync.chain < lastResync.nonce
    /\ nonce = lastResync.nonce
    /\ n0 < nonce

(***************************************************************************)
(* More properties of wait_for_receipt, checked under SpecReceipt.         *)
(***************************************************************************)
\* C14: a receipt without a status field ends the wait at the lookup that
\* finds it: rstatus is -1, which is neither 1 nor 0, no lookup and no sleep
\* follows, and -1 is what is returned.
C14_NoStatusEndsWait ==
    /\ rstatus # None => wrPc \in {"check", "after", "done"}
    /\ ("receipt" \in wrAnswers /\ "status" \notin DOMAIN receipt) =>
          (rstatus = -1 /\ rstatus \notin {0, 1})
    /\ (wrPc = "done" /\ rstatus # None) => wrResult = "returned"

C14_Witness ==
    /\ wrPc = "done"
    /\ wrResult = "returned"
    /\ rstatus = -1
    /\ "not_found" \in wrAnswers
    /\ now - wrStartTs < wrMaxTime

\* C15: a lookup that reports "not found" leads to the sleep and the next
\* evaluation of the loop condition, and nothing is raised for it before
\* the timeout; a lookup that fails otherwise ends the wait at once with
\* that error, neither a ReceiptTimeoutError nor a status.
C15_AbsenceIsNotFailure ==
    /\ [][wrPc = "poll" =>
            /\ "error" \in wrAnswers' =>
                 (wrPc' = "done" /\ wrResult' = "ProviderError" /\ rstatus' = None)
            /\ wrPc' = "sleep" =>
                 ("not_found" \in wrAnswers' /\ wrResult' = "none" /\ rstatus' = None)
            /\ (wrPc' # "poll" /\ ~mined /\ "error" \notin wrAnswers') =>
                 wrPc' = "sleep"]_vars
    /\ [](wrResult = "ReceiptTimeoutError" =>
            ("error" \notin wrAnswers /\ now - wrStartTs >= wrMaxTime))
    /\ [](wrResult = "ProviderError" => "error" \in wrAnswers)

C15_Witness ==
    /\ wrPc = "done"
    /\ wrResult = "ProviderError"
    /\ "not_found" \in wrAnswers
    /\ now - wrStartTs < wrMaxTime

\* C20: a receipt that is there when wait_for_receipt is called is returned,
\* whatever max_time is.
C20_MinedIsReported ==
    (wrPc = "done" /\ wrMinedAtCall /\ "error" \notin wrAnswers) =>
        /\ wrResult = "returned"
        /\ rstatus = DictGetDefault(receipt, "status", -1)

(***************************************************************************)
(* More properties of calculate_gas, checked under SpecFee.                *)
(***************************************************************************)
\* C16: a requested gas limit is the result, and estimate_gas is
\* not called.
C16_ExplicitGasVerbatim ==
    (feePc = "done" /\ feeErr = "none" /\ rawTx["gas"] # None) =>
        /\ gas = rawTx["gas"]
        /\ feeRpc = {}

\* C17: with estimation disabled calculate_gas makes no call and returns
\* floor(requested gas * multiplier), for every request, one without a
\* requested gas included.
C17_DisabledFallback ==
    (feePc = "done" /\ disableGasEstimation) =>
        /\ feeErr = "none"
        /\ feeRpc = {}
        /\ gas = ((IF rawTx["gas"] = None THEN 0 ELSE rawTx["gas"]) * Multiplier)
                    \div MultDen

(***************************************************************************)
(* More properties of the server, checked under SpecFair and SpecRoutes.   *)
(***************************************************************************)
\* C18: threadLock is held only by a thread inside the with block, and a
\* request waiting for it enters the block and gets its response.
C18_LockReleased ==
    /\ [](\A t \in Threads : threadLock = t => pc[t] \in InSection)
    /\ \A t \in Threads : (pc[t] = "lock") ~> (pc[t] \in InSection)
    /\ \A t \in Threads :
          (pc[t] = "lock") ~> (pc[t] = "idle" /\ resp[t] # NoResponse)

C18_Witness ==
    \E t, u \in Threads :
        /\ t # u
        /\ pc[t] = "idle"
        /\ resp[t] = HTTP_BAD_REQUEST
        /\ pc[u] \in InSection
        /\ failNonce # NoNonce

\* C19: a step of /sign, /sign-hash, /address or /public-key changes neither
\* the nonce nor threadLock nor what /sign-and-send has read or sent, and
\* each of these handlers can be entered and can run whoever holds
\* threadLock.
C19_OnlySubmitTouchesSequencer ==
    /\ [][\A t \in Threads :
            (pc'[t] # pc[t] /\ (pc[t] \in Endpoints \/ pc'[t] \in Endpoints)) =>
                /\ nonce' = nonce
                /\ confirmed' = confirmed
                /\ threadLock' = threadLock
                /\ txNonce' = txNonce
                /\ sent' = sent]_vars
    /\ [](\A t \in Threads :
            /\ (mainPc = "serving" /\ pc[t] = "idle") =>
                  \A ep \in Endpoints : ENABLED HandlerArrives(t, ep)
            /\ pc[t] = "sign" => ENABLED Sign(t)
            /\ pc[t] = "sign_hash" => ENABLED SignHash(t)
            /\ pc[t] = "address" => ENABLED Address(t)
            /\ pc[t] = "public_key" => ENABLED PublicKey(t))

C19_Witness ==
    \E t, u \in Threads :
        /\ threadLock = t
        /\ pc[t] = "send"
        /\ pc[u] = "sign"

====
